---- MODULE Spec2Model ----
(***************************************************************************)
(* A model of the Cascades-style search driver of peloton's optimizer      *)
(* (src/src/optimizer/optimizer.cpp).  The Optimizer's member functions    *)
(* are recursive; they are modelled small-step, with an explicit call      *)
(* stack whose frames hold each function's locals and loop positions.      *)
(* Memo, Group, GroupExpression, the binding iterator and the rule         *)
(* implementations are not part of the source at hand; they are modelled   *)
(* from the specification (sections 3, 4.1, 4.3, 4.4).                     *)
(***************************************************************************)
EXTENDS Integers, Sequences, FiniteSets, TLC

\* ------------------------------------------------------------------ bounds
\* Base tables a query may scan.
NumTables == 2
\* Largest number of leaves (LogicalGet) of an input operator tree.
MaxLeaves == 4
\* Largest number of calls the client makes on one Optimizer.
MaxCalls == 2
\* Largest number of leaves of a tree handed to InsertQueryTree directly.
MaxOpLeaves == 2
\* Largest number of member-function calls made one after the other.
MaxOps == 3

\* ----------------------------------------------------------- small helpers
Range(s) == {s[i] : i \in 1..Len(s)}

Min(S) == CHOOSE x \in S : \A y \in S : x <= y

\* Body applied to a value that is computed once.
With(value, Body(_)) == CHOOSE r \in {Body(v) : v \in {value}} : TRUE

RECURSIVE Flatten(_)
Flatten(ss) ==
  IF ss = <<>> THEN <<>> ELSE Head(ss) \o With(Tail(ss), Flatten)

\* ------------------------------------------------------------ operator model
\* "Not yet assigned" group id; group ids are the indices 1..Len(memo.groups).
UNDEFINED_GROUP == 0

\* "No expression": the null shared_ptr<GroupExpression>.
NullExpr == 0

\* "No cost derived yet" in an expression's per-property cost table.
NoCost == -1

LogicalGet(t) == [kind |-> "LogicalGet", arg |-> t]

LogicalInnerJoin == [kind |-> "LogicalInnerJoin", arg |-> 0]

PhysicalScan(t) == [kind |-> "PhysicalScan", arg |-> t]

PhysicalInnerNLJoin == [kind |-> "PhysicalInnerNLJoin", arg |-> 0]

\* The placeholder a pattern leaf binds to: it carries the GroupID it stands for.
LeafOperator(g) == [kind |-> "Leaf", arg |-> g]

LogicalKinds ==
  {"LogicalGet", "LogicalInnerJoin", "LogicalLeftJoin", "LogicalRightJoin",
   "LogicalOuterJoin", "LogicalFilter", "LogicalProject"}

PhysicalKinds ==
  {"PhysicalScan", "PhysicalInnerNLJoin", "PhysicalLeftNLJoin",
   "PhysicalRightNLJoin", "PhysicalOuterNLJoin", "PhysicalFilter",
   "PhysicalComputeExprs"}

IsLogical(op) == op.kind \in LogicalKinds

IsPhysical(op) == op.kind \in PhysicalKinds

\* An operator tree (OpExpression): an operator over child trees.
OpExpression(op, children) == [op |-> op, children |-> children]

\* ------------------------------------------------------------ property system
Properties == {"sorted"}

PropertySets == SUBSET Properties

EmptyPropertySet == {}

\* a >= b: a subsumes b.
Subsumes(a, b) == b \subseteq a

\* ---------------------------------------------------------------- the memo
\* memo.gexprs is the heap of GroupExpression objects (shared_ptr targets),
\* memo.groups[g].expressions lists, in insertion order, the objects group g
\* holds.
NoBest == [gexpr |-> NullExpr, cost |-> NoCost]

NewGroup ==
  [expressions |-> <<>>, explored |-> FALSE, implemented |-> FALSE,
   best |-> [r \in PropertySets |-> NoBest]]

\* Group::GetBestExpression(properties): null when none is bound.
GetBestExpression(m, g, properties) == m.groups[g].best[properties].gexpr

NewGroupExpression(op, children, g) ==
  [op |-> op, children |-> children, group |-> g,
   cost |-> [r \in PropertySets |-> NoCost]]

EmptyMemo == [groups |-> <<>>, gexprs |-> <<>>]

GroupIDs(m) == 1..Len(m.groups)

Stored(m) == UNION {Range(m.groups[g].expressions) : g \in GroupIDs(m)}

SameExpression(m, i, j) ==
  /\ m.gexprs[i].op = m.gexprs[j].op
  /\ m.gexprs[i].children = m.gexprs[j].children

\* The stored expressions equal to (op, children).
FindExpression(m, op, children) ==
  {id \in Stored(m) : m.gexprs[id].op = op /\ m.gexprs[id].children = children}

\* rewrite_child_pointers(old, new), and the union of the two expression lists.
MoveAndRewrite(m, old, new) ==
  LET stored == Stored(m)
      Redirect(g) == IF g = old THEN new ELSE g
  IN [groups |-> [m.groups EXCEPT
                    ![new].expressions = @ \o m.groups[old].expressions,
                    ![old].expressions = <<>>],
      gexprs |-> [id \in 1..Len(m.gexprs) |->
                    IF id \in stored
                    THEN [m.gexprs[id] EXCEPT
                            !.children = [k \in 1..Len(m.gexprs[id].children) |->
                                            Redirect(m.gexprs[id].children[k])],
                            !.group = Redirect(m.gexprs[id].group)]
                    ELSE m.gexprs[id]]]

DuplicatePairs(m) ==
  {p \in Stored(m) \X Stored(m) : p[1] < p[2] /\ SameExpression(m, p[1], p[2])}

\* The pair of the oldest expression that has a copy, and its oldest copy.
FirstPair(pairs) ==
  CHOOSE p \in pairs :
    \A q \in pairs : p[1] < q[1] \/ (p[1] = q[1] /\ p[2] <= q[2])

\* Restores "no duplicate expressions" after child pointers were redirected:
\* a copy within one group is dropped, copies in two groups merge the groups.
RECURSIVE Normalize(_)
Normalize(m) ==
  LET Resolve(i, j) ==
        IF m.gexprs[i].group = m.gexprs[j].group
        THEN With([m EXCEPT !.groups[m.gexprs[j].group].expressions =
                             SelectSeq(@, LAMBDA id : id # j)],
                  Normalize)
        ELSE With(MoveAndRewrite(m, m.gexprs[j].group, m.gexprs[i].group),
                  Normalize)
      ResolvePair(p) == Resolve(p[1], p[2])
      Among(pairs) == IF pairs = {} THEN m ELSE ResolvePair(FirstPair(pairs))
  IN With(DuplicatePairs(m), Among)

MergeGroups(m, old, new) == With(MoveAndRewrite(m, old, new), Normalize)

AddNewGroup(m) == [m EXCEPT !.groups = Append(@, NewGroup)]

\* Memo::InsertExpression(gexpr, target_group) -> is_new, setting gexpr's group.
InsertExpression(m, ge, target_group) ==
  LET Existing(m2, id) ==
        [memo |-> m2, id |-> id, group |-> m2.gexprs[id].group, is_new |-> FALSE]
      Found(id) ==
        IF target_group # UNDEFINED_GROUP /\ target_group # m.gexprs[id].group
        THEN With(MergeGroups(m, m.gexprs[id].group, target_group),
                  LAMBDA merged : Existing(merged, id))
        ELSE Existing(m, id)
      Into(m1, g, id) ==
        [memo |-> [groups |-> [m1.groups EXCEPT ![g].expressions = Append(@, id)],
                   gexprs |-> Append(m1.gexprs,
                                     NewGroupExpression(ge.op, ge.children, g))],
         id |-> id, group |-> g, is_new |-> TRUE]
      Lookup(found) ==
        IF found # {} THEN Found(Min(found))
        ELSE IF target_group = UNDEFINED_GROUP
        THEN Into(AddNewGroup(m), Len(m.groups) + 1, Len(m.gexprs) + 1)
        ELSE Into(m, target_group, Len(m.gexprs) + 1)
  IN IF ge.op.kind = "Leaf"
     THEN [memo |-> m, id |-> NullExpr, group |-> ge.op.arg, is_new |-> FALSE]
     ELSE With(FindExpression(m, ge.op, ge.children), Lookup)

\* ---------------------------------------------------------- memo insertion
\* Children that are not inserted into the memo: the parent's group-expression
\* is built over unassigned GroupIDs.
MemoTransformedChildren_NotInserted(m, children) ==
  [memo |-> m,
   child_groups |-> [k \in 1..Len(children) |-> UNDEFINED_GROUP]]

RECURSIVE MakeGroupExpression(_, _)
RECURSIVE MemoTransformedChildren(_, _)
RECURSIVE MemoTransformedExpression(_, _)

MakeGroupExpression(m, expr) ==
  LET Made(c) ==
        [memo |-> c.memo, gexpr |-> [op |-> expr.op, children |-> c.child_groups]]
  IN With(MemoTransformedChildren(m, expr.children), Made)

MemoTransformedChildren(m, children) ==
  LET PushFront(g, t) ==
        [memo |-> t.memo, child_groups |-> <<g>> \o t.child_groups]
      Rest(h) ==
        With(MemoTransformedChildren(h.memo, Tail(children)),
             LAMBDA t : PushFront(h.group, t))
  IN IF children = <<>> THEN [memo |-> m, child_groups |-> <<>>]
     ELSE With(MemoTransformedExpression(m, Head(children)), Rest)

MemoTransformedExpression(m, expr) ==
  LET Inserted(ins) == [memo |-> ins.memo, group |-> ins.group]
      Made(mk) ==
        With(InsertExpression(mk.memo, mk.gexpr, UNDEFINED_GROUP), Inserted)
  IN With(MakeGroupExpression(m, expr), Made)

\* A recording that stores the expression without asking the memo whether an
\* equal one is stored.
RecordTransformedExpression_Unchecked(m, expr, target_group) ==
  LET Added(m1, g, ge) ==
        [memo |-> [groups |-> [m1.groups EXCEPT
                                 ![g].expressions = Append(@, Len(m1.gexprs) + 1)],
                   gexprs |-> Append(m1.gexprs,
                                     NewGroupExpression(ge.op, ge.children, g))],
         gexpr |-> Len(m1.gexprs) + 1, is_new |-> TRUE]
      Made(mk) ==
        IF target_group = UNDEFINED_GROUP
        THEN Added(AddNewGroup(mk.memo), Len(mk.memo.groups) + 1, mk.gexpr)
        ELSE Added(mk.memo, target_group, mk.gexpr)
  IN With(MakeGroupExpression(m, expr), Made)

\* RecordTransformedExpression(expr, gexpr, target_group) -> is_new.
RecordTransformedExpression(m, expr, target_group) ==
  LET Inserted(ins) ==
        [memo |-> ins.memo, gexpr |-> ins.id, is_new |-> ins.is_new]
      Made(mk) ==
        With(InsertExpression(mk.memo, mk.gexpr, target_group), Inserted)
  IN With(MakeGroupExpression(m, expr), Made)

\* ------------------------------------------------------------------- rules
\* A pattern node: an operator kind over child patterns; kind "Leaf" matches
\* any group.
Pattern(kind, children) == [kind |-> kind, children |-> children]

LeafPattern == Pattern("Leaf", <<>>)

Rule(name, pattern) == [name |-> name, pattern |-> pattern]

InnerJoinCommutativity ==
  Rule("InnerJoinCommutativity",
       Pattern("LogicalInnerJoin", <<LeafPattern, LeafPattern>>))

\* A transformation whose pattern reaches into the left child group.  The
\* constructor does not register it; it stands for the multi-level rules the
\* rule engine accepts (the active InnerJoinAssociativity of later rule sets).
InnerJoinAssociativity ==
  Rule("InnerJoinAssociativity",
       Pattern("LogicalInnerJoin",
               <<Pattern("LogicalInnerJoin", <<LeafPattern, LeafPattern>>),
                 LeafPattern>>))

GetToScan == Rule("GetToScan", Pattern("LogicalGet", <<>>))

LogicalFilterToPhysical ==
  Rule("LogicalFilterToPhysical", Pattern("LogicalFilter", <<LeafPattern>>))

ProjectToComputeExprs ==
  Rule("ProjectToComputeExprs", Pattern("LogicalProject", <<LeafPattern>>))

InnerJoinToInnerNLJoin ==
  Rule("InnerJoinToInnerNLJoin",
       Pattern("LogicalInnerJoin", <<LeafPattern, LeafPattern>>))

LeftJoinToLeftNLJoin ==
  Rule("LeftJoinToLeftNLJoin",
       Pattern("LogicalLeftJoin", <<LeafPattern, LeafPattern>>))

RightJoinToRightNLJoin ==
  Rule("RightJoinToRightNLJoin",
       Pattern("LogicalRightJoin", <<LeafPattern, LeafPattern>>))

OuterJoinToOuterNLJoin ==
  Rule("OuterJoinToOuterNLJoin",
       Pattern("LogicalOuterJoin", <<LeafPattern, LeafPattern>>))

\* The physical kind an implementation rule produces.
ImplementedKind(name) ==
  CASE name = "GetToScan" -> "PhysicalScan"
    [] name = "LogicalFilterToPhysical" -> "PhysicalFilter"
    [] name = "ProjectToComputeExprs" -> "PhysicalComputeExprs"
    [] name = "InnerJoinToInnerNLJoin" -> "PhysicalInnerNLJoin"
    [] name = "LeftJoinToLeftNLJoin" -> "PhysicalLeftNLJoin"
    [] name = "RightJoinToRightNLJoin" -> "PhysicalRightNLJoin"
    [] name = "OuterJoinToOuterNLJoin" -> "PhysicalOuterNLJoin"

\* Rule::Check: none of the registered rules guards its match.
RuleCheck(rule, plan) == TRUE

\* Rule::Transform(plan, transformed_plans).
RuleTransform(rule, plan) ==
  CASE rule.name = "InnerJoinCommutativity" ->
         <<OpExpression(plan.op, <<plan.children[2], plan.children[1]>>)>>
    [] rule.name = "InnerJoinAssociativity" ->
         <<OpExpression(plan.op,
             <<plan.children[1].children[1],
               OpExpression(plan.children[1].op,
                            <<plan.children[1].children[2], plan.children[2]>>)>>)>>
    [] OTHER ->
         <<OpExpression([kind |-> ImplementedKind(rule.name), arg |-> plan.op.arg],
                        plan.children)>>

\* Optimizer::Optimizer(): the rules the constructor registers.
ConstructorLogicalRules == <<InnerJoinCommutativity>>

physical_implementation_rules_ ==
  <<GetToScan, LogicalFilterToPhysical, ProjectToComputeExprs,
    InnerJoinToInnerNLJoin, LeftJoinToLeftNLJoin, RightJoinToRightNLJoin,
    OuterJoinToOuterNLJoin>>

\* The logical rule sets the rule engine is run with: the constructor's, and
\* the constructor's extended with a multi-level rule, in both rule orders.
LogicalRuleSets ==
  {ConstructorLogicalRules,
   <<InnerJoinCommutativity, InnerJoinAssociativity>>,
   <<InnerJoinAssociativity, InnerJoinCommutativity>>}

\* --------------------------------------------------------- pattern binding
\* Every combination of one binding per child, the first child varying slowest.
RECURSIVE Product(_)
Product(ss) ==
  LET Cross(first, rest) ==
        With([i \in 1..Len(first) |->
                [j \in 1..Len(rest) |-> <<first[i]>> \o rest[j]]], Flatten)
  IN IF ss = <<>> THEN << <<>> >>
     ELSE With(Product(Tail(ss)), LAMBDA rest : Cross(Head(ss), rest))

RECURSIVE GroupBindings(_, _, _)
RECURSIVE ExprBindings(_, _, _)

\* Bindings of a pattern against every expression of a group, in insertion order.
GroupBindings(m, g, pat) ==
  IF pat.kind = "Leaf" THEN <<OpExpression(LeafOperator(g), <<>>)>>
  ELSE With([i \in 1..Len(m.groups[g].expressions) |->
               ExprBindings(m, m.groups[g].expressions[i], pat)], Flatten)

\* ItemBindingIterator: the operator trees a pattern binds at one expression.
ExprBindings(m, id, pat) ==
  LET e == m.gexprs[id]
      Over(combos) == [c \in 1..Len(combos) |-> OpExpression(e.op, combos[c])]
  IN IF e.op.kind # pat.kind \/ Len(e.children) # Len(pat.children) THEN <<>>
     ELSE With(With([k \in 1..Len(e.children) |->
                       GroupBindings(m, e.children[k], pat.children[k])],
                    Product), Over)

\* -------------------------------------------------------- rule application
\* The loop of TransformExpression over the transformed plans: each is
\* recorded with the group of gexpr as target, and kept when it is new.
\* The same loop keeping every recorded plan, new or not.
RECURSIVE IntegratePlans_KeepAll(_, _, _, _)
IntegratePlans_KeepAll(m, gexpr, plans, output_plans) ==
  LET Recorded(r) ==
        IntegratePlans_KeepAll(r.memo, gexpr, Tail(plans),
                               Append(output_plans, r.gexpr))
  IN IF plans = <<>> THEN [memo |-> m, output_plans |-> output_plans]
     ELSE With(RecordTransformedExpression(m, Head(plans),
                                           m.gexprs[gexpr].group), Recorded)

\* The same loop recording every plan with no target group.
RECURSIVE IntegratePlans_NoTarget(_, _, _, _)
IntegratePlans_NoTarget(m, gexpr, plans, output_plans) ==
  LET Recorded(r) ==
        IntegratePlans_NoTarget(r.memo, gexpr, Tail(plans),
                                IF r.is_new THEN Append(output_plans, r.gexpr)
                                ELSE output_plans)
  IN IF plans = <<>> THEN [memo |-> m, output_plans |-> output_plans]
     ELSE With(RecordTransformedExpression(m, Head(plans), UNDEFINED_GROUP),
               Recorded)

\* The same loop returning none of the plans it records.
RECURSIVE IntegratePlans_KeepNone(_, _, _, _)
IntegratePlans_KeepNone(m, gexpr, plans, output_plans) ==
  LET Recorded(r) ==
        IntegratePlans_KeepNone(r.memo, gexpr, Tail(plans), output_plans)
  IN IF plans = <<>> THEN [memo |-> m, output_plans |-> output_plans]
     ELSE With(RecordTransformedExpression(m, Head(plans),
                                           m.gexprs[gexpr].group), Recorded)

RECURSIVE IntegratePlans(_, _, _, _)
IntegratePlans(m, gexpr, plans, output_plans) ==
  LET Recorded(r) ==
        IntegratePlans(r.memo, gexpr, Tail(plans),
                       IF r.is_new THEN Append(output_plans, r.gexpr)
                       ELSE output_plans)
  IN IF plans = <<>> THEN [memo |-> m, output_plans |-> output_plans]
     ELSE With(RecordTransformedExpression(m, Head(plans),
                                           m.gexprs[gexpr].group), Recorded)

TransformExpression(m, gexpr, rule) ==
  LET Transformed(bindings) ==
        With([b \in 1..Len(bindings) |->
                IF RuleCheck(rule, bindings[b])
                THEN RuleTransform(rule, bindings[b]) ELSE <<>>], Flatten)
      Integrated(plans) == IntegratePlans(m, gexpr, plans, <<>>)
  IN With(With(ExprBindings(m, gexpr, rule.pattern), Transformed), Integrated)

\* ------------------------------------------------------------------ inputs
Node(op, children) == OpExpression(op, children)

\* The logical operator trees with exactly n leaves.
RECURSIVE TreesWith(_)
TreesWith(n) ==
  IF n = 1 THEN {Node(LogicalGet(t), <<>>) : t \in 1..NumTables}
  ELSE UNION {{Node(LogicalInnerJoin, <<l, r>>) :
                 l \in TreesWith(k), r \in TreesWith(n - k)} : k \in 1..(n - 1)}

InputTrees == UNION {TreesWith(n) : n \in 1..MaxLeaves}

\* A parsed statement: the query's operator tree and the properties its
\* result must have.
Statements == [tree : InputTrees, properties : PropertySets]

\* A parse_tree_list: no statement, or one (only statement 0 is read).
StatementLists == {<<>>} \cup {<<s>> : s \in Statements}

ConvertQueryToOpExpression(tree) == tree.tree

GetQueryTreeRequiredProperties(tree) == tree.properties

\* InsertQueryTree: the record call sits inside assert(), so a build with
\* NDEBUG never makes it and returns the null gexpr.
InsertQueryTree(m, tree, ndebug) ==
  IF ndebug THEN [memo |-> m, gexpr |-> NullExpr, asserted |-> TRUE]
  ELSE LET Recorded(r) ==
             [memo |-> r.memo, gexpr |-> r.gexpr, asserted |-> r.is_new]
       IN With(RecordTransformedExpression(
                 m, ConvertQueryToOpExpression(tree), UNDEFINED_GROUP), Recorded)

\* ------------------------------------------------------------------- state
VARIABLES
  memo,                           \* Optimizer::memo
  logical_transformation_rules_,  \* the registered logical rules
  NDEBUG,                         \* whether the build compiles assertions out
  stack,                          \* the call stack, innermost frame last
  status,                         \* "running", "aborted" (a failed assertion)
                                  \* or "undefined" (a null dereference)
  retval,                         \* the value the last returned call returned
  result,                         \* what the last client call returned
  calls,                          \* client calls made so far
  last_call,                      \* history: the last client call
  last_transform,                 \* history: the last TransformExpression
  inserts,                        \* history: the InsertQueryTree calls made
  history                         \* history: the ExploreExpression calls
                                  \* entered and the OptimizeGroup calls returned

config == <<logical_transformation_rules_, NDEBUG>>

vars ==
  <<memo, config, stack, status, retval, result, calls, last_call,
    last_transform, inserts, history>>

NoValue == [kind |-> "none", plan |-> <<>>]

NullPlan == [kind |-> "nullptr", plan |-> <<>>]

Plan(tree) == [kind |-> "plan", plan |-> tree]

NoCall == [fn |-> "none"]

NoTransform ==
  [gexpr |-> NullExpr, group |-> UNDEFINED_GROUP, rule |-> "none",
   before |-> EmptyMemo, output_plans |-> <<>>]

Init ==
  /\ memo = EmptyMemo
  /\ logical_transformation_rules_ \in LogicalRuleSets
  /\ NDEBUG \in BOOLEAN
  /\ stack = <<>>
  /\ status = "running"
  /\ retval = NoValue
  /\ result = NoValue
  /\ calls = 0
  /\ last_call = NoCall
  /\ last_transform = NoTransform
  /\ inserts = <<>>
  /\ history = <<>>

\* What one InsertQueryTree call did: the tree, whether its assertion held, the
\* expression and root GroupID it returned, and the memo's size before and after.
InsertRecord(before, tree, ins) ==
  [tree |-> ConvertQueryToOpExpression(tree),
   asserted |-> ins.asserted,
   gexpr |-> ins.gexpr,
   root |-> IF ins.gexpr = NullExpr THEN UNDEFINED_GROUP
            ELSE ins.memo.gexprs[ins.gexpr].group,
   groups_before |-> Len(before.groups),
   groups_after |-> Len(ins.memo.groups),
   exprs_before |-> Cardinality(Stored(before)),
   exprs_after |-> Cardinality(Stored(ins.memo))]

\* ------------------------------------------------------------ stack frames
Top == stack[Len(stack)]

Running(fn) == status = "running" /\ stack # <<>> /\ Top.fn = fn

Pop(stk) == SubSeq(stk, 1, Len(stk) - 1)

SetTop(stk, frame) == [stk EXCEPT ![Len(stk)] = frame]

Call(stk, frame, callee) == Append(SetTop(stk, frame), callee)

BuildFrame(tree) ==
  [fn |-> "BuildPelotonPlanTree", pc |-> "InsertQueryTree", parse_tree |-> tree,
   gexpr |-> NullExpr, root_id |-> UNDEFINED_GROUP,
   properties |-> EmptyPropertySet]

\* GetExpressions() hands the loop the expressions the group holds when the
\* loop starts.
ExploreGroupFrame(m, id) ==
  [fn |-> "ExploreGroup", id |-> id, exprs |-> m.groups[id].expressions, i |-> 1]

ExploreExpressionFrame(gexpr) ==
  [fn |-> "ExploreExpression", gexpr |-> gexpr, pc |-> "assert", rule |-> 1,
   candidates |-> <<>>, c |-> 1, child |-> 1]

ImplementGroupFrame(m, id) ==
  [fn |-> "ImplementGroup", id |-> id, exprs |-> m.groups[id].expressions,
   i |-> 1]

OptimizeExpressionFrame(gexpr, requirements) ==
  [fn |-> "OptimizeExpression", gexpr |-> gexpr, requirements |-> requirements,
   pc |-> "assert", pairs |-> <<>>, pair_offset |-> 1, i |-> 1,
   best_child_costs |-> <<>>]

ChooseBestPlanFrame(id, requirements) ==
  [fn |-> "ChooseBestPlan", id |-> id, requirements |-> requirements,
   pc |-> "entry", gexpr |-> NullExpr, i |-> 1, children |-> <<>>]

\* History entries: ExploreExpression(gexpr) was entered; OptimizeGroup(id,
\* requirements) returned.
Entered(f) == [fn |-> f.fn, gexpr |-> f.gexpr]

Returned(f) == [fn |-> f.fn, id |-> f.id, requirements |-> f.requirements]

\* ----------------------------------------------------------------- actions
\* The entry point without its base case: statement 0 of an empty list is
\* read, and at(0) throws.
BuildPelotonPlanTree_NoBaseCase ==
  /\ status = "running" /\ stack = <<>> /\ calls < MaxCalls
  /\ \E parse_tree_list \in StatementLists :
       /\ IF Len(parse_tree_list) = 0
          THEN /\ status' = "aborted"
               /\ stack' = stack
          ELSE /\ status' = status
               /\ stack' = <<BuildFrame(parse_tree_list[1])>>
       /\ last_call' = [fn |-> "BuildPelotonPlanTree",
                        parse_tree_list |-> parse_tree_list]
  /\ result' = NoValue
  /\ calls' = calls + 1
  /\ retval' = NoValue
  /\ UNCHANGED <<memo, config, last_transform, inserts, history>>

\* The client calls BuildPelotonPlanTree(parse_tree_list); an empty list
\* returns nullptr at once (the base case).
BuildPelotonPlanTree ==
  /\ status = "running" /\ stack = <<>> /\ calls < MaxCalls
  /\ \E parse_tree_list \in StatementLists :
       /\ IF Len(parse_tree_list) = 0
          THEN /\ result' = NullPlan
               /\ stack' = stack
          ELSE /\ result' = NoValue
               /\ stack' = <<BuildFrame(parse_tree_list[1])>>
       /\ last_call' = [fn |-> "BuildPelotonPlanTree",
                        parse_tree_list |-> parse_tree_list]
  /\ calls' = calls + 1
  /\ retval' = NoValue
  /\ UNCHANGED <<memo, config, status, last_transform, inserts, history>>

\* The body of BuildPelotonPlanTree with the two middle phases exchanged:
\* ImplementGroup(root) is called before ExploreGroup(root).
BuildPelotonPlanTreeBody_ImplementFirst ==
  /\ Running("BuildPelotonPlanTree")
  /\ LET f == Top
         Inserted(ins) ==
           /\ memo' = ins.memo
           /\ inserts' = Append(inserts, InsertRecord(memo, f.parse_tree, ins))
           /\ IF ~ins.asserted THEN status' = "aborted" /\ stack' = stack
              ELSE IF ins.gexpr = NullExpr
              THEN status' = "undefined" /\ stack' = stack
              ELSE /\ status' = status
                   /\ stack' = SetTop(stack,
                        [f EXCEPT !.pc = "ExploreGroup",
                                  !.gexpr = ins.gexpr,
                                  !.root_id = ins.memo.gexprs[ins.gexpr].group,
                                  !.properties =
                                    GetQueryTreeRequiredProperties(f.parse_tree)])
     IN CASE f.pc = "InsertQueryTree" ->
               /\ \E ins \in {InsertQueryTree(memo, f.parse_tree, NDEBUG)} :
                    Inserted(ins)
               /\ UNCHANGED <<result, retval>>
          [] f.pc = "ExploreGroup" ->
               /\ stack' = Call(stack, [f EXCEPT !.pc = "ImplementGroup"],
                                ImplementGroupFrame(memo, f.root_id))
               /\ UNCHANGED <<memo, status, result, retval, inserts>>
          [] f.pc = "ImplementGroup" ->
               /\ stack' = Call(stack, [f EXCEPT !.pc = "OptimizeExpression"],
                                ExploreGroupFrame(memo, f.root_id))
               /\ UNCHANGED <<memo, status, result, retval, inserts>>
          [] f.pc = "OptimizeExpression" ->
               /\ stack' = Call(stack, [f EXCEPT !.pc = "ChooseBestPlan"],
                                OptimizeExpressionFrame(f.gexpr, f.properties))
               /\ UNCHANGED <<memo, status, result, retval, inserts>>
          [] f.pc = "ChooseBestPlan" ->
               /\ stack' = Call(stack, [f EXCEPT !.pc = "return"],
                                ChooseBestPlanFrame(f.root_id, f.properties))
               /\ UNCHANGED <<memo, status, result, retval, inserts>>
          [] f.pc = "return" ->
               /\ result' = IF retval.kind = "plan" THEN retval ELSE NullPlan
               /\ stack' = Pop(stack)
               /\ UNCHANGED <<memo, status, retval, inserts>>
  /\ UNCHANGED <<config, calls, last_call, last_transform, history>>

\* The body of BuildPelotonPlanTree after the base case, one call per step.
BuildPelotonPlanTreeBody ==
  /\ Running("BuildPelotonPlanTree")
  /\ LET f == Top
         Inserted(ins) ==
           /\ memo' = ins.memo
           /\ inserts' = Append(inserts, InsertRecord(memo, f.parse_tree, ins))
           /\ IF ~ins.asserted THEN status' = "aborted" /\ stack' = stack
              ELSE IF ins.gexpr = NullExpr
              THEN status' = "undefined" /\ stack' = stack
              ELSE /\ status' = status
                   /\ stack' = SetTop(stack,
                        [f EXCEPT !.pc = "ExploreGroup",
                                  !.gexpr = ins.gexpr,
                                  !.root_id = ins.memo.gexprs[ins.gexpr].group,
                                  !.properties =
                                    GetQueryTreeRequiredProperties(f.parse_tree)])
     IN CASE f.pc = "InsertQueryTree" ->
               /\ \E ins \in {InsertQueryTree(memo, f.parse_tree, NDEBUG)} :
                    Inserted(ins)
               /\ UNCHANGED <<result, retval>>
          [] f.pc = "ExploreGroup" ->
               /\ stack' = Call(stack, [f EXCEPT !.pc = "ImplementGroup"],
                                ExploreGroupFrame(memo, f.root_id))
               /\ UNCHANGED <<memo, status, result, retval, inserts>>
          [] f.pc = "ImplementGroup" ->
               /\ stack' = Call(stack, [f EXCEPT !.pc = "OptimizeExpression"],
                                ImplementGroupFrame(memo, f.root_id))
               /\ UNCHANGED <<memo, status, result, retval, inserts>>
          [] f.pc = "OptimizeExpression" ->
               /\ stack' = Call(stack, [f EXCEPT !.pc = "ChooseBestPlan"],
                                OptimizeExpressionFrame(f.gexpr, f.properties))
               /\ UNCHANGED <<memo, status, result, retval, inserts>>
          [] f.pc = "ChooseBestPlan" ->
               /\ stack' = Call(stack, [f EXCEPT !.pc = "return"],
                                ChooseBestPlanFrame(f.root_id, f.properties))
               /\ UNCHANGED <<memo, status, result, retval, inserts>>
          [] f.pc = "return" ->
               /\ result' = IF retval.kind = "plan" THEN retval ELSE NullPlan
               /\ stack' = Pop(stack)
               /\ UNCHANGED <<memo, status, retval, inserts>>
  /\ UNCHANGED <<config, calls, last_call, last_transform, history>>

\* ExploreGroup(id): explore each expression of the group, then set the flag.
ExploreGroup ==
  /\ Running("ExploreGroup")
  /\ LET f == Top IN
       IF f.i <= Len(f.exprs)
       THEN /\ stack' = Call(stack, [f EXCEPT !.i = f.i + 1],
                             ExploreExpressionFrame(f.exprs[f.i]))
            /\ memo' = memo
       ELSE /\ memo' = [memo EXCEPT !.groups[f.id].explored = TRUE]
            /\ stack' = Pop(stack)
  /\ UNCHANGED <<config, status, retval, result, calls, last_call,
                 last_transform, inserts, history>>

\* ExploreExpression without its last loop: the child groups are passed over.
ExploreExpression_NoChildren ==
  /\ Running("ExploreExpression")
  /\ LET f == Top
         rules == logical_transformation_rules_
         children == memo.gexprs[f.gexpr].children
         Transformed(t) ==
           /\ memo' = t.memo
           /\ last_transform' =
                [gexpr |-> f.gexpr, group |-> memo.gexprs[f.gexpr].group,
                 rule |-> rules[f.rule].name, before |-> memo,
                 output_plans |-> t.output_plans]
           /\ stack' = SetTop(stack, [f EXCEPT !.rule = f.rule + 1,
                                               !.candidates = t.output_plans,
                                               !.c = 1])
     IN CASE f.pc = "assert" ->
               /\ IF ~NDEBUG /\ ~IsLogical(memo.gexprs[f.gexpr].op)
                  THEN status' = "aborted" /\ stack' = stack
                  ELSE status' = status
                       /\ stack' = SetTop(stack, [f EXCEPT !.pc = "rules"])
               /\ UNCHANGED <<memo, last_transform>>
               /\ history' = Append(history, Entered(f))
          [] f.pc = "rules" /\ f.c <= Len(f.candidates) ->
               /\ stack' = Call(stack, [f EXCEPT !.c = f.c + 1],
                                ExploreExpressionFrame(f.candidates[f.c]))
               /\ UNCHANGED <<memo, status, last_transform, history>>
          [] f.pc = "rules" /\ f.c > Len(f.candidates) /\ f.rule <= Len(rules) ->
               /\ \E t \in {TransformExpression(memo, f.gexpr, rules[f.rule])} :
                    Transformed(t)
               /\ UNCHANGED <<status, history>>
          [] f.pc = "rules" /\ f.c > Len(f.candidates) /\ f.rule > Len(rules) ->
               /\ stack' = SetTop(stack, [f EXCEPT !.pc = "children"])
               /\ UNCHANGED <<memo, status, last_transform, history>>
          [] f.pc = "children" /\ f.child <= Len(children) ->
               /\ stack' = SetTop(stack, [f EXCEPT !.child = f.child + 1])
               /\ UNCHANGED <<memo, status, last_transform, history>>
          [] f.pc = "children" /\ f.child > Len(children) ->
               /\ stack' = Pop(stack)
               /\ UNCHANGED <<memo, status, last_transform, history>>
  /\ UNCHANGED <<config, retval, result, calls, last_call, inserts>>

\* ExploreExpression(gexpr): the assertion, then every logical rule with the
\* exploration of each candidate it returns, then the unexplored child groups.
ExploreExpression ==
  /\ Running("ExploreExpression")
  /\ LET f == Top
         rules == logical_transformation_rules_
         children == memo.gexprs[f.gexpr].children
         Transformed(t) ==
           /\ memo' = t.memo
           /\ last_transform' =
                [gexpr |-> f.gexpr, group |-> memo.gexprs[f.gexpr].group,
                 rule |-> rules[f.rule].name, before |-> memo,
                 output_plans |-> t.output_plans]
           /\ stack' = SetTop(stack, [f EXCEPT !.rule = f.rule + 1,
                                               !.candidates = t.output_plans,
                                               !.c = 1])
     IN CASE f.pc = "assert" ->
               /\ IF ~NDEBUG /\ ~IsLogical(memo.gexprs[f.gexpr].op)
                  THEN status' = "aborted" /\ stack' = stack
                  ELSE status' = status
                       /\ stack' = SetTop(stack, [f EXCEPT !.pc = "rules"])
               /\ UNCHANGED <<memo, last_transform>>
               /\ history' = Append(history, Entered(f))
          [] f.pc = "rules" /\ f.c <= Len(f.candidates) ->
               /\ stack' = Call(stack, [f EXCEPT !.c = f.c + 1],
                                ExploreExpressionFrame(f.candidates[f.c]))
               /\ UNCHANGED <<memo, status, last_transform, history>>
          [] f.pc = "rules" /\ f.c > Len(f.candidates) /\ f.rule <= Len(rules) ->
               /\ \E t \in {TransformExpression(memo, f.gexpr, rules[f.rule])} :
                    Transformed(t)
               /\ UNCHANGED <<status, history>>
          [] f.pc = "rules" /\ f.c > Len(f.candidates) /\ f.rule > Len(rules) ->
               /\ stack' = SetTop(stack, [f EXCEPT !.pc = "children"])
               /\ UNCHANGED <<memo, status, last_transform, history>>
          [] f.pc = "children" /\ f.child <= Len(children) ->
               /\ stack' = IF ~memo.groups[children[f.child]].explored
                           THEN Call(stack, [f EXCEPT !.child = f.child + 1],
                                     ExploreGroupFrame(memo, children[f.child]))
                           ELSE SetTop(stack, [f EXCEPT !.child = f.child + 1])
               /\ UNCHANGED <<memo, status, last_transform, history>>
          [] f.pc = "children" /\ f.child > Len(children) ->
               /\ stack' = Pop(stack)
               /\ UNCHANGED <<memo, status, last_transform, history>>
  /\ UNCHANGED <<config, retval, result, calls, last_call, inserts>>

\* ImplementGroup moving the group from explored to implemented: it sets the
\* one flag and clears the other.
ImplementGroup_ClearsExplored ==
  /\ Running("ImplementGroup")
  /\ LET f == Top IN
       IF f.i <= Len(f.exprs)
       THEN /\ stack' = IF IsPhysical(memo.gexprs[f.exprs[f.i]].op)
                        THEN Call(stack, [f EXCEPT !.i = f.i + 1],
                                  ExploreExpressionFrame(f.exprs[f.i]))
                        ELSE SetTop(stack, [f EXCEPT !.i = f.i + 1])
            /\ memo' = memo
       ELSE /\ memo' = [memo EXCEPT !.groups[f.id].implemented = TRUE,
                                    !.groups[f.id].explored = FALSE]
            /\ stack' = Pop(stack)
  /\ UNCHANGED <<config, status, retval, result, calls, last_call,
                 last_transform, inserts, history>>

\* ImplementGroup(id): ExploreExpression on each physical expression of the
\* group, then set the flag.
ImplementGroup ==
  /\ Running("ImplementGroup")
  /\ LET f == Top IN
       IF f.i <= Len(f.exprs)
       THEN /\ stack' = IF IsPhysical(memo.gexprs[f.exprs[f.i]].op)
                        THEN Call(stack, [f EXCEPT !.i = f.i + 1],
                                  ExploreExpressionFrame(f.exprs[f.i]))
                        ELSE SetTop(stack, [f EXCEPT !.i = f.i + 1])
            /\ memo' = memo
       ELSE /\ memo' = [memo EXCEPT !.groups[f.id].implemented = TRUE]
            /\ stack' = Pop(stack)
  /\ UNCHANGED <<config, status, retval, result, calls, last_call,
                 last_transform, inserts, history>>

\* DeriveChildProperties: a stub that offers no (output, inputs) pair.
DeriveChildProperties(gexpr, requirements) == <<>>

\* GroupExpression::DeriveStatsAndCost: the operator's own cost on top of its
\* children's, stored under the output properties.
DeriveStatsAndCost(m, gexpr, output_properties, best_child_costs) ==
  LET Sum[k \in 0..Len(best_child_costs)] ==
        IF k = 0 THEN 0 ELSE Sum[k - 1] + best_child_costs[k]
  IN [m EXCEPT !.gexprs[gexpr].cost[output_properties] =
                 1 + Sum[Len(best_child_costs)]]

\* Group::SetExpressionCost: bind best[properties] when none is bound or the
\* new cost is strictly lower.
SetExpressionCost(m, g, gexpr, cost, properties) ==
  IF \/ m.groups[g].best[properties].gexpr = NullExpr
     \/ cost < m.groups[g].best[properties].cost
  THEN [m EXCEPT !.groups[g].best[properties] = [gexpr |-> gexpr, cost |-> cost]]
  ELSE m

\* Operator::RequiredInputProperties(): the modelled operators demand nothing
\* of their inputs.
RequiredInputProperties(op) == <<>>

ImplementExpressionFrame(gexpr) ==
  [fn |-> "ImplementExpression", gexpr |-> gexpr, pc |-> "rules", rule |-> 1,
   child |-> 1]

OptimizeGroupFrame(id, requirements) ==
  [fn |-> "OptimizeGroup", id |-> id, requirements |-> requirements,
   pc |-> "entry", exprs |-> <<>>, i |-> 1]

\* ImplementExpression(gexpr): every implementation rule, then the child
\* groups not yet implemented.
ImplementExpression ==
  /\ Running("ImplementExpression")
  /\ LET f == Top
         rules == physical_implementation_rules_
         children == memo.gexprs[f.gexpr].children
         Transformed(t) ==
           /\ memo' = t.memo
           /\ last_transform' =
                [gexpr |-> f.gexpr, group |-> memo.gexprs[f.gexpr].group,
                 rule |-> rules[f.rule].name, before |-> memo,
                 output_plans |-> t.output_plans]
           /\ stack' = SetTop(stack, [f EXCEPT !.rule = f.rule + 1])
     IN CASE f.pc = "rules" /\ f.rule <= Len(rules) ->
               \E t \in {TransformExpression(memo, f.gexpr, rules[f.rule])} :
                 Transformed(t)
          [] f.pc = "rules" /\ f.rule > Len(rules) ->
               /\ stack' = SetTop(stack, [f EXCEPT !.pc = "children"])
               /\ UNCHANGED <<memo, last_transform>>
          [] f.pc = "children" /\ f.child <= Len(children) ->
               /\ stack' = IF ~memo.groups[children[f.child]].implemented
                           THEN Call(stack, [f EXCEPT !.child = f.child + 1],
                                     ImplementGroupFrame(memo, children[f.child]))
                           ELSE SetTop(stack, [f EXCEPT !.child = f.child + 1])
               /\ UNCHANGED <<memo, last_transform>>
          [] f.pc = "children" /\ f.child > Len(children) ->
               /\ stack' = Pop(stack)
               /\ UNCHANGED <<memo, last_transform>>
  /\ UNCHANGED <<config, status, retval, result, calls, last_call, inserts,
                 history>>

\* OptimizeGroup(id, requirements): nothing when best[requirements] is bound,
\* else OptimizeExpression on each physical expression of the group.
OptimizeGroup ==
  /\ Running("OptimizeGroup")
  /\ LET f == Top IN
       CASE f.pc = "entry" ->
              IF GetBestExpression(memo, f.id, f.requirements) # NullExpr
              THEN /\ stack' = Pop(stack)
                   /\ history' = Append(history, Returned(f))
              ELSE /\ stack' = SetTop(stack,
                        [f EXCEPT !.pc = "loop",
                                  !.exprs = memo.groups[f.id].expressions])
                   /\ history' = history
         [] f.pc = "loop" /\ f.i <= Len(f.exprs) ->
              /\ stack' = IF IsPhysical(memo.gexprs[f.exprs[f.i]].op)
                          THEN Call(stack, [f EXCEPT !.i = f.i + 1],
                                    OptimizeExpressionFrame(f.exprs[f.i],
                                                            f.requirements))
                          ELSE SetTop(stack, [f EXCEPT !.i = f.i + 1])
              /\ history' = history
         [] f.pc = "loop" /\ f.i > Len(f.exprs) ->
              /\ stack' = Pop(stack)
              /\ history' = Append(history, Returned(f))
  /\ UNCHANGED <<memo, config, status, retval, result, calls, last_call,
                 last_transform, inserts>>

\* OptimizeExpression(gexpr, requirements): the physical-only assertion, then
\* for each (output, inputs) pair: optimize every child group, take its best
\* expression (asserted to exist), cost gexpr, and offer it to its group when
\* the output properties subsume the requirements.
OptimizeExpression ==
  /\ Running("OptimizeExpression")
  /\ LET f == Top
         child_group_ids == memo.gexprs[f.gexpr].children
         pair == f.pairs[f.pair_offset]
         output_properties == pair[1]
         input_properties == pair[2][f.i]
         best_expression ==
           GetBestExpression(memo, child_group_ids[f.i], input_properties)
         Costed(costed) ==
           IF Subsumes(output_properties, f.requirements)
           THEN SetExpressionCost(costed, memo.gexprs[f.gexpr].group, f.gexpr,
                                  costed.gexprs[f.gexpr].cost[output_properties],
                                  f.requirements)
           ELSE costed
     IN CASE f.pc = "assert" ->
               /\ IF ~NDEBUG /\ ~IsPhysical(memo.gexprs[f.gexpr].op)
                  THEN status' = "aborted" /\ stack' = stack
                  ELSE status' = status
                       /\ stack' = SetTop(stack,
                            [f EXCEPT !.pc = "pairs",
                                      !.pairs = DeriveChildProperties(
                                                  f.gexpr, f.requirements)])
               /\ memo' = memo
          [] f.pc = "pairs" /\ f.pair_offset > Len(f.pairs) ->
               /\ stack' = Pop(stack)
               /\ UNCHANGED <<memo, status>>
          [] f.pc = "pairs" /\ f.pair_offset <= Len(f.pairs)
             /\ f.i <= Len(child_group_ids) ->
               /\ stack' = Call(stack, [f EXCEPT !.pc = "child"],
                                OptimizeGroupFrame(child_group_ids[f.i],
                                                   input_properties))
               /\ UNCHANGED <<memo, status>>
          [] f.pc = "child" ->
               /\ IF best_expression = NullExpr
                  THEN /\ status' = IF NDEBUG THEN "undefined" ELSE "aborted"
                       /\ stack' = stack
                  ELSE /\ status' = status
                       /\ stack' = SetTop(stack,
                            [f EXCEPT !.pc = "pairs", !.i = f.i + 1,
                                      !.best_child_costs =
                                        Append(@, memo.gexprs[best_expression]
                                                    .cost[input_properties])])
               /\ memo' = memo
          [] f.pc = "pairs" /\ f.pair_offset <= Len(f.pairs)
             /\ f.i > Len(child_group_ids) ->
               /\ memo' = Costed(DeriveStatsAndCost(memo, f.gexpr,
                                    output_properties, f.best_child_costs))
               /\ stack' = SetTop(stack,
                    [f EXCEPT !.pair_offset = f.pair_offset + 1, !.i = 1,
                              !.best_child_costs = <<>>])
               /\ status' = status
  /\ UNCHANGED <<config, retval, result, calls, last_call, last_transform,
                 inserts, history>>

\* ChooseBestPlan(id, requirements): the best expression of the group (used
\* without a null check), over the best plans of its child groups.
ChooseBestPlan ==
  /\ Running("ChooseBestPlan")
  /\ LET f == Top
         gexpr == GetBestExpression(memo, f.id, f.requirements)
         child_groups == memo.gexprs[f.gexpr].children
         declared == RequiredInputProperties(memo.gexprs[f.gexpr].op)
         required_input_props ==
           IF declared = <<>>
           THEN [k \in 1..Len(child_groups) |-> EmptyPropertySet]
           ELSE declared
     IN CASE f.pc = "entry" ->
               /\ IF gexpr = NullExpr
                  THEN status' = "undefined" /\ stack' = stack
                  ELSE status' = status
                       /\ stack' = SetTop(stack, [f EXCEPT !.pc = "children",
                                                           !.gexpr = gexpr])
               /\ retval' = retval
          [] f.pc = "children" /\ f.i <= Len(child_groups) ->
               /\ stack' = Call(stack, [f EXCEPT !.pc = "push"],
                                ChooseBestPlanFrame(child_groups[f.i],
                                                    required_input_props[f.i]))
               /\ UNCHANGED <<status, retval>>
          [] f.pc = "push" ->
               /\ stack' = SetTop(stack,
                    [f EXCEPT !.pc = "children", !.i = f.i + 1,
                              !.children = Append(@, retval.plan)])
               /\ UNCHANGED <<status, retval>>
          [] f.pc = "children" /\ f.i > Len(child_groups) ->
               /\ retval' = Plan(OpExpression(memo.gexprs[f.gexpr].op, f.children))
               /\ stack' = Pop(stack)
               /\ status' = status
  /\ UNCHANGED <<memo, config, result, calls, last_call, last_transform,
                 inserts, history>>

\* --------------------------------------------------------- specifications
\* The optimizer driven through its entry point, BuildPelotonPlanTree.
Next ==
  \/ BuildPelotonPlanTree
  \/ BuildPelotonPlanTreeBody
  \/ ExploreGroup
  \/ ExploreExpression
  \/ ImplementGroup
  \/ OptimizeExpression

Spec == Init /\ [][Next]_vars

\* The same driver, running: a call that can take its next step takes it.
SpecFair == Spec /\ WF_vars(Next)

\* The trees and statements handed to InsertQueryTree when it is called
\* directly.
OpStatements ==
  [tree : UNION {TreesWith(n) : n \in 1..MaxOpLeaves},
   properties : {EmptyPropertySet}]

\* A direct call of InsertQueryTree(tree).
CallInsertQueryTree ==
  /\ status = "running" /\ stack = <<>> /\ calls < MaxOps
  /\ \E tree \in OpStatements :
       LET Inserted(ins) ==
             /\ memo' = ins.memo
             /\ inserts' = Append(inserts, InsertRecord(memo, tree, ins))
             /\ status' = IF ins.asserted THEN status ELSE "aborted"
       IN /\ \E ins \in {InsertQueryTree(memo, tree, NDEBUG)} : Inserted(ins)
          /\ last_call' = [fn |-> "InsertQueryTree", tree |-> tree]
  /\ calls' = calls + 1
  /\ retval' = NoValue
  /\ UNCHANGED <<config, stack, result, last_transform, history>>

\* The calls of the member functions that take a group or an expression of
\* the memo.
MemberCalls(m) ==
  {ExploreGroupFrame(m, g) : g \in GroupIDs(m)}
    \cup {ImplementGroupFrame(m, g) : g \in GroupIDs(m)}
    \cup {ImplementExpressionFrame(e) : e \in Stored(m)}
    \cup {OptimizeGroupFrame(g, r) : g \in GroupIDs(m), r \in PropertySets}
    \cup {OptimizeExpressionFrame(e, r) : e \in Stored(m), r \in PropertySets}
    \cup {ChooseBestPlanFrame(g, r) : g \in GroupIDs(m), r \in PropertySets}

\* A direct call of one member function on the memo as it stands.
CallMember ==
  /\ status = "running" /\ stack = <<>> /\ calls < MaxOps
  /\ \E frame \in MemberCalls(memo) :
       /\ stack' = <<frame>>
       /\ last_call' = frame
  /\ calls' = calls + 1
  /\ retval' = NoValue
  /\ UNCHANGED <<memo, config, status, result, last_transform, inserts,
                 history>>

\* The member functions called one by one, as a unit test calls them, on an
\* Optimizer as its constructor leaves it.
InitOps == Init /\ logical_transformation_rules_ = ConstructorLogicalRules

NextOps ==
  \/ CallInsertQueryTree
  \/ CallMember
  \/ ExploreGroup
  \/ ExploreExpression
  \/ ImplementGroup
  \/ ImplementExpression
  \/ OptimizeGroup
  \/ OptimizeExpression
  \/ ChooseBestPlan

SpecOps == InitOps /\ [][NextOps]_vars

\* ------------------------------------------------------------------ claims
\* What TransformExpression would do to the memo as it stands.
Applying(m, gexpr, rule) == TransformExpression(m, gexpr, rule).memo

\* The tree the running (or last) BuildPelotonPlanTree call was handed.
HasInput == last_call.fn = "BuildPelotonPlanTree" /\ last_call.parse_tree_list # <<>>

\* C1: the memo never holds two distinct group-expressions with equal
\* operator and equal ordered child GroupIDs; a rule product equal to a stored
\* expression is not stored again and is not reported as new.
C1_NoDuplicateExpressions ==
  /\ DuplicatePairs(memo) = {}
  /\ \A id \in Range(last_transform.output_plans) :
       id \notin Stored(last_transform.before)

\* C1 witness: commutativity was applied to a join whose commuted form the memo
\* already held, so nothing was reported as new.
C1_Witness ==
  /\ last_transform.rule = "InnerJoinCommutativity"
  /\ ExprBindings(last_transform.before, last_transform.gexpr,
                  InnerJoinCommutativity.pattern) # <<>>
  /\ last_transform.output_plans = <<>>
  /\ Cardinality(Stored(memo)) = Cardinality(Stored(last_transform.before))

BestNeverBound ==
  \A g \in GroupIDs(memo) : \A r \in PropertySets :
    memo.groups[g].best[r] = NoBest

\* No call ever hands a plan back.
NoPlanReturned == result.kind # "plan" /\ retval.kind # "plan"

\* C5: choose_best(g, R) entered when g.best[R] is absent returns to its
\* caller without a plan; it does not go on to use the missing expression.
C5_AbsentBestIsNoPlan ==
  [][(/\ Running("ChooseBestPlan")
      /\ Top.pc = "entry"
      /\ GetBestExpression(memo, Top.id, Top.requirements) = NullExpr)
     => (/\ status' = "running"
         /\ stack' = Pop(stack)
         /\ retval'.kind # "plan")]_vars

\* C6: after OptimizeGroup(g, R) has returned, an extraction that visits
\* (g, R) finds a best expression there, or ends without a plan: it never
\* goes on with the missing expression.
C6_VisitedPairsHaveBest ==
  (/\ stack # <<>>
   /\ Top.fn = "ChooseBestPlan"
   /\ [fn |-> "OptimizeGroup", id |-> Top.id,
       requirements |-> Top.requirements] \in Range(history))
  => \/ GetBestExpression(memo, Top.id, Top.requirements) # NullExpr
     \/ status # "undefined"

\* C7: ingesting the same operator tree twice succeeds both times with the
\* same root GroupID, and the second ingestion adds no group and no
\* expression.
C7_ReingestionIdempotent ==
  \A i \in 1..Len(inserts) : \A j \in 1..Len(inserts) :
    (i < j /\ inserts[i].tree = inserts[j].tree) =>
      /\ inserts[i].asserted /\ inserts[i].gexpr # NullExpr
      /\ inserts[j].asserted /\ inserts[j].gexpr # NullExpr
      /\ inserts[j].root = inserts[i].root
      /\ inserts[j].groups_after = inserts[j].groups_before
      /\ inserts[j].exprs_after = inserts[j].exprs_before

\* C8: every BuildPelotonPlanTree call handed a statement runs to its end
\* and returns a non-null plan.
C8_EveryCallReturnsPlan ==
  HasInput => /\ status = "running"
              /\ stack = <<>> => result.kind = "plan"

\* The rewrites of a tree by one rule at its root.
RootRewrites(rule, t) ==
  IF t.op # LogicalInnerJoin THEN {}
  ELSE IF rule.name = "InnerJoinCommutativity"
  THEN {Node(LogicalInnerJoin, <<t.children[2], t.children[1]>>)}
  ELSE IF rule.name = "InnerJoinAssociativity"
          /\ t.children[1].op = LogicalInnerJoin
  THEN {Node(LogicalInnerJoin,
             <<t.children[1].children[1],
               Node(LogicalInnerJoin,
                    <<t.children[1].children[2], t.children[2]>>)>>)}
  ELSE {}

\* The rewrites of a tree by one rule of the set at one position.
RECURSIVE Rewrites(_, _)
Rewrites(rules, t) ==
  UNION {RootRewrites(rules[r], t) : r \in 1..Len(rules)}
    \cup UNION {{Node(t.op, [t.children EXCEPT ![k] = c]) :
                   c \in Rewrites(rules, t.children[k])} :
                k \in 1..Len(t.children)}

\* The closure of a set of trees under the rules.
RECURSIVE Closure(_, _)
Closure(rules, trees) ==
  LET Grown(more) == IF more \subseteq trees THEN trees
                     ELSE Closure(rules, trees \cup more)
  IN With(UNION {Rewrites(rules, t) : t \in trees}, Grown)

RECURSIVE Subtrees(_)
Subtrees(t) ==
  {t} \cup UNION {Subtrees(t.children[k]) : k \in 1..Len(t.children)}

\* The size of the closure of each input under each rule set: the number of
\* distinct operator trees that occur in it, as a tree or within one.
ClosureSize ==
  [rules \in LogicalRuleSets |->
     [t \in InputTrees |->
        Cardinality(UNION {Subtrees(c) : c \in Closure(rules, {t})})]]

\* The driver's ExploreGroup call on the root group is in progress.
ExploringRoot ==
  /\ status = "running"
  /\ Len(stack) >= 2
  /\ stack[1].fn = "BuildPelotonPlanTree"
  /\ stack[2].fn = "ExploreGroup"

\* That call has returned.
ExploredRoot ==
  /\ Len(stack) = 1
  /\ stack[1].fn = "BuildPelotonPlanTree"
  /\ stack[1].pc = "ImplementGroup"
  /\ memo.groups[stack[1].root_id].explored

\* The memo holds no more expressions than the closure of the input has.
WithinClosure ==
  HasInput =>
    Cardinality(Stored(memo)) <=
      ClosureSize[logical_transformation_rules_]
                 [last_call.parse_tree_list[1].tree]

\* A rule reports no stored expression as new, and the rule loop explores
\* only what the rule reported.
OnlyNewExplored ==
  /\ \A id \in Range(last_transform.output_plans) :
       id \notin Stored(last_transform.before)
  /\ \A k \in 2..Len(stack) :
       (stack[k].fn = "ExploreExpression"
          /\ stack[k - 1].fn = "ExploreExpression") =>
         /\ stack[k - 1].c - 1 \in 1..Len(stack[k - 1].candidates)
         /\ stack[k].gexpr = stack[k - 1].candidates[stack[k - 1].c - 1]

\* C10: with mutually inverse rules registered, the exploration of the root
\* group returns; no rule reports an expression the memo already held as new,
\* only reported expressions are explored in turn, and the memo never holds
\* more expressions than the closure of the input under the rules has.
C10_ExplorationTerminates ==
  /\ []WithinClosure
  /\ []OnlyNewExplored
  /\ ExploringRoot ~> ExploredRoot

\* C10 witness: the exploration of the root group has returned, the last rule
\* application re-derived a stored expression, and the memo holds as many
\* expressions as the closure has.
C10_Witness ==
  /\ ExploredRoot
  /\ HasInput
  /\ last_transform.rule = "InnerJoinCommutativity"
  /\ last_transform.output_plans = <<>>
  /\ Cardinality(Stored(memo)) =
       ClosureSize[logical_transformation_rules_]
                  [last_call.parse_tree_list[1].tree]
  /\ Cardinality(Stored(memo)) > Len(memo.groups)

\* The driver's ImplementGroup call on the root group has returned.
ImplementedRoot ==
  /\ Len(stack) = 1
  /\ stack[1].fn = "BuildPelotonPlanTree"
  /\ stack[1].pc = "OptimizeExpression"

\* The expressions of group g whose operator is of the given kind.
OfKind(m, g, kind) ==
  {id \in Range(m.groups[g].expressions) : m.gexprs[id].op.kind = kind}

\* The input is a join of two different base tables.
JoinOfTwoTables(tree) ==
  /\ tree.op = LogicalInnerJoin
  /\ tree.children[1].op.kind = "LogicalGet"
  /\ tree.children[2].op.kind = "LogicalGet"
  /\ tree.children[1].op # tree.children[2].op

\* C11: for the input Join(A, B) and the constructor's rules, after the
\* explore and implement phases one group holds join expressions, and it
\* holds two logical joins and two physical nested-loop joins.
C11_JoinGroupHasBothOrientations ==
  (/\ ImplementedRoot
   /\ HasInput
   /\ logical_transformation_rules_ = ConstructorLogicalRules
   /\ JoinOfTwoTables(last_call.parse_tree_list[1].tree))
  => /\ Cardinality(OfKind(memo, stack[1].root_id, "LogicalInnerJoin")) = 2
     /\ Cardinality(OfKind(memo, stack[1].root_id, "PhysicalInnerNLJoin")) = 2
     /\ \A g \in GroupIDs(memo) :
          g # stack[1].root_id =>
            /\ OfKind(memo, g, "LogicalInnerJoin") = {}
            /\ OfKind(memo, g, "PhysicalInnerNLJoin") = {}

\* C12: a group marked implemented has had every physical-implementation
\* rule applied to every logical expression it holds: applying one again
\* records nothing, the physical expressions are already in the memo.
C12_ImplementedGroupHasPhysical ==
  \A g \in GroupIDs(memo) :
    memo.groups[g].implemented =>
      \A k \in 1..Len(memo.groups[g].expressions) :
        IsLogical(memo.gexprs[memo.groups[g].expressions[k]].op) =>
          \A r \in 1..Len(physical_implementation_rules_) :
            Applying(memo, memo.groups[g].expressions[k],
                     physical_implementation_rules_[r]) = memo

\* The step is a client call of BuildPelotonPlanTree with no statement.
EmptyCall ==
  /\ stack = <<>>
  /\ calls' = calls + 1
  /\ last_call'.fn = "BuildPelotonPlanTree"
  /\ last_call'.parse_tree_list = <<>>

\* C13: BuildPelotonPlanTree called with no statement returns the null plan
\* at once; the memo is left as it was, and no ingestion, exploration,
\* implementation, optimization or extraction step runs.
C13_EmptyInputReturnsNull ==
  [][EmptyCall => /\ result' = NullPlan
                  /\ status' = "running"
                  /\ stack' = <<>>
                  /\ memo' = memo
                  /\ inserts' = inserts
                  /\ history' = history
                  /\ last_transform' = last_transform]_vars

\* C13 witness: a call with no statement has returned the null plan.
C13_Witness ==
  /\ last_call.fn = "BuildPelotonPlanTree"
  /\ last_call.parse_tree_list = <<>>
  /\ calls >= 1
  /\ stack = <<>>
  /\ result = NullPlan
  /\ memo = EmptyMemo

\* Group g is no further back in m2 than it is in m1: a flag that is set
\* stays set, and a best expression that is bound stays bound.
KeepsState(m1, m2, g) ==
  /\ m1.groups[g].explored => m2.groups[g].explored
  /\ m1.groups[g].implemented => m2.groups[g].implemented
  /\ \A r \in PropertySets :
       m1.groups[g].best[r].gexpr # NullExpr =>
         m2.groups[g].best[r].gexpr # NullExpr

\* C14: within one optimization no step removes a group, clears a group's
\* explored or implemented flag, or unbinds a best expression; and a group
\* is marked implemented only when it is marked explored.
C14_GroupStateMonotone ==
  [][/\ Len(memo'.groups) >= Len(memo.groups)
     /\ \A g \in GroupIDs(memo) : KeepsState(memo, memo', g)
     /\ \A g \in GroupIDs(memo') :
          memo'.groups[g].implemented => memo'.groups[g].explored]_vars

\* C14 witness: a group was marked explored before the last rule application,
\* rules have added expressions to the memo, and the group is still marked
\* explored now that the root group is marked explored and implemented.
C14_Witness ==
  /\ ImplementedRoot
  /\ memo.groups[stack[1].root_id].explored
  /\ memo.groups[stack[1].root_id].implemented
  /\ Cardinality(Stored(memo)) > Len(memo.groups)
  /\ \E g \in GroupIDs(last_transform.before) :
       /\ last_transform.before.groups[g].explored
       /\ memo.groups[g].explored

\* The child GroupIDs of the expressions group g holds.
ChildGroups(m, g) ==
  UNION {Range(m.gexprs[id].children) : id \in Range(m.groups[g].expressions)}

\* C15: every child GroupID of every stored group-expression is the id of a
\* group of the same memo; none is UNDEFINED_GROUP.
C15_ChildGroupsExist ==
  \A g \in GroupIDs(memo) :
    \A child \in ChildGroups(memo, g) :
      /\ child # UNDEFINED_GROUP
      /\ child \in GroupIDs(memo)

\* C15 witness: the last rule application created a group for a product's
\* child, and the memo holds expressions with children.
C15_Witness ==
  /\ Len(memo.groups) > Len(last_transform.before.groups)
  /\ last_transform.rule = "InnerJoinAssociativity"
  /\ last_transform.output_plans # <<>>
  /\ \E id \in Range(last_transform.output_plans) :
       /\ id \in Stored(memo)
       /\ \E k \in 1..Len(memo.gexprs[id].children) :
            memo.gexprs[id].children[k] > Len(last_transform.before.groups)

\* The phases of the driver in the order of its calls; the driver's pc names
\* the call it makes next.
PhaseOf(pc) ==
  CASE pc = "InsertQueryTree" -> 1
    [] pc = "ExploreGroup" -> 2
    [] pc = "ImplementGroup" -> 3
    [] pc = "OptimizeExpression" -> 4
    [] pc = "ChooseBestPlan" -> 5
    [] pc = "return" -> 6

DriverRunning == stack # <<>> /\ stack[1].fn = "BuildPelotonPlanTree"

\* The phase the driver has called and not yet seen return.
InPhase(fn) == DriverRunning /\ Len(stack) >= 2 /\ stack[2].fn = fn

HasPhysical(m) == \E id \in Stored(m) : IsPhysical(m.gexprs[id].op)

HasCost(m) ==
  \E id \in Stored(m) : \E r \in PropertySets : m.gexprs[id].cost[r] # NoCost

\* What each phase finds done when it runs.
PhasesInOrder ==
  /\ InPhase("ExploreGroup") =>
       /\ inserts # <<>>
       /\ stack[2].id = stack[1].root_id
       /\ ~memo.groups[stack[1].root_id].implemented
  /\ InPhase("ImplementGroup") =>
       /\ stack[2].id = stack[1].root_id
       /\ memo.groups[stack[1].root_id].explored
  /\ InPhase("OptimizeExpression") =>
       /\ stack[2].gexpr = stack[1].gexpr
       /\ memo.groups[stack[1].root_id].explored
       /\ memo.groups[stack[1].root_id].implemented
  /\ InPhase("ChooseBestPlan") =>
       /\ stack[1].pc = "return"
       /\ memo.groups[stack[1].root_id].implemented
  /\ DriverRunning =>
       /\ HasPhysical(memo) => memo.groups[stack[1].root_id].explored
       /\ HasCost(memo) => memo.groups[stack[1].root_id].implemented

\* The driver moves on to its next call only when the call before it has
\* returned, and it skips none.
OnePhaseAtATime ==
  (DriverRunning /\ stack' # <<>> /\ stack'[1].pc # stack[1].pc)
  => /\ Len(stack) = 1
     /\ PhaseOf(stack'[1].pc) = PhaseOf(stack[1].pc) + 1

\* C16: in one driver run the calls are made in the order InsertQueryTree,
\* ExploreGroup(root), ImplementGroup(root), OptimizeExpression(root
\* expression), ChooseBestPlan(root), each after the one before it has
\* returned: implementation runs on an explored root group, optimization on
\* an implemented one, and extraction after optimization.
C16_PhasesInOrder ==
  /\ []PhasesInOrder
  /\ [][OnePhaseAtATime]_vars

\* C16 witness: the driver has ingested, explored (rules added expressions)
\* and implemented the root group, and has called OptimizeExpression.
C16_Witness ==
  /\ InPhase("OptimizeExpression")
  /\ memo.groups[stack[1].root_id].explored
  /\ memo.groups[stack[1].root_id].implemented
  /\ Cardinality(Stored(memo)) > Len(memo.groups)

\* C17: during a driver run every OptimizeExpression call, the driver's own
\* call on the ingested root expression included, is handed a physical
\* expression, so the physical-only assertion does not fail.
C17_OptimizeOnlyPhysical ==
  DriverRunning =>
    \A k \in 1..Len(stack) :
      stack[k].fn = "OptimizeExpression" =>
        /\ IsPhysical(memo.gexprs[stack[k].gexpr].op)
        /\ status # "aborted"

\* C18: no ExploreExpression call, from ExploreGroup or from ImplementGroup,
\* runs on a physical expression, and ExploreGroup on a group that holds
\* physical expressions does not fail.
C18_ExploreSkipsPhysical ==
  /\ \A k \in 1..Len(history) :
       history[k].fn = "ExploreExpression" =>
         ~IsPhysical(memo.gexprs[history[k].gexpr].op)
  /\ \A k \in 1..Len(stack) :
       stack[k].fn = "ExploreGroup" => status = "running"

\* The groups reachable from group g through child references.
RECURSIVE ReachableFrom(_, _)
ReachableFrom(m, seen) ==
  LET Grown(more) == IF more \subseteq seen THEN seen
                     ELSE ReachableFrom(m, seen \cup more)
  IN With(UNION {ChildGroups(m, g) : g \in seen}, Grown)

\* C19: once ImplementGroup(root) has returned, every group reachable from
\* the root group through child references is marked implemented.
C19_ReachableGroupsImplemented ==
  ImplementedRoot =>
    \A g \in ReachableFrom(memo, {stack[1].root_id}) :
      memo.groups[g].implemented

\* No OptimizeExpression call is ever offered an (output, inputs) pair, so none
\* asks a child group for its best expression: DeriveChildProperties returns
\* the empty list.
NoPairOffered ==
  \A k \in 1..Len(stack) :
    stack[k].fn = "OptimizeExpression" =>
      /\ stack[k].pairs = <<>>
      /\ stack[k].pc \in {"assert", "pairs"}

\* The step is a rule application (a TransformExpression call).
RuleApplied == last_transform' # last_transform

\* C21: every expression a rule application reports as new is stored in the
\* group of the expression the rule was applied to; the groups the
\* application creates hold none of them (they are for the products' children).
C21_ProductsJoinOwnGroup ==
  [][RuleApplied =>
       \A k \in 1..Len(last_transform'.output_plans) :
         LET id == last_transform'.output_plans[k] IN
           /\ memo'.gexprs[id].group = memo'.gexprs[last_transform'.gexpr].group
           /\ memo'.gexprs[id].group \in GroupIDs(last_transform'.before)
           /\ id \in Range(memo'.groups[memo'.gexprs[id].group].expressions)]_vars

\* C21 witness: a rule application has reported a new expression, stored in
\* the group of the expression it was applied to, and has created a group for
\* one of the product's children.
C21_Witness ==
  /\ last_transform.output_plans # <<>>
  /\ Len(memo.groups) > Len(last_transform.before.groups)
  /\ \A k \in 1..Len(last_transform.output_plans) :
       /\ last_transform.output_plans[k] \in
            Range(memo.groups[last_transform.group].expressions)
       /\ memo.gexprs[last_transform.output_plans[k]].group = last_transform.group

\* The expressions of the group of expression e in memo m that memo `before`
\* did not have: GroupExpression objects are numbered as they are made.
NewInGroupOf(before, m, e) ==
  {id \in Range(m.groups[m.gexprs[e].group].expressions) :
     id > Len(before.gexprs)}

RuleNamed(name) ==
  CHOOSE rule \in Range(logical_transformation_rules_)
                    \cup Range(physical_implementation_rules_) :
    rule.name = name

ExploresChild ==
  /\ stack # <<>>
  /\ Top.fn = "ExploreExpression"
  /\ Len(stack') = Len(stack) + 1
  /\ stack'[Len(stack')].fn = "ExploreGroup"

\* Every group reachable from the root group is marked explored.
ReachableExplored ==
  \A g \in ReachableFrom(memo, {stack[1].root_id}) : memo.groups[g].explored

\* C24: once the driver's ExploreGroup(root) has returned, every group
\* reachable from the root group through the child GroupIDs of the
\* expressions the memo then holds is marked explored; and ExploreExpression
\* never calls ExploreGroup on a child group that is marked explored.
C24_ReachableGroupsExplored ==
  /\ [](ExploredRoot => ReachableExplored)
  /\ [][ExploresChild => ~memo.groups[stack'[Len(stack')].id].explored]_vars

\* C24 witness: ExploreGroup(root) has returned, a group that a rule created
\* during the exploration is reachable from the root group, and every
\* reachable group is marked explored.
C24_Witness ==
  /\ ExploredRoot
  /\ inserts # <<>>
  /\ \E g \in ReachableFrom(memo, {stack[1].root_id}) :
       g > inserts[Len(inserts)].groups_after
  /\ ReachableExplored

====
